---- MODULE Spec2Model ----
(***************************************************************************)
(* Model of src/main.py: a Streamlit registration form backed by a remote  *)
(* 'users' table.  Every browser session runs the script main() from top   *)
(* to bottom; the runs of different sessions interleave at the remote      *)
(* calls (select / insert), which are the only points where they share     *)
(* state.  Text is modelled as sequences of one-character strings so that  *)
(* the regular expressions and len() of the source are computed, not       *)
(* assumed.  The optional form fields (gender, country, city, address,     *)
(* occupation, newsletter, date_of_birth) take no part in any decision of  *)
(* the script and are left out of the rows.                                *)
(***************************************************************************)
EXTENDS Naturals, Sequences, FiniteSets, TLC

VARIABLES
    client,        \* the cached result of init_supabase(): "unset" or "ok"
    store,         \* the remote 'users' table, a sequence of rows
    clock,         \* datetime.now(), read when user_data is built
    runs,          \* number of submissions made so far
    pc,            \* per session: position of the running script
    formRendered,  \* per session: the registration form is on the page
    submitted,     \* per session: this run was started by the Register button
    form,          \* per session: the field values of the submission
    errors,        \* per session: the list 'errors' of main()
    user_data,     \* per session: the dict handed to register_user
    result,        \* per session: (success, message) returned by register_user
    callLog,       \* per session: remote calls issued by the current run
    listed,        \* per session: what the "View Users" tab shows
    password,      \* input of the validate_password harness
    pwd_checked,   \* the harness has applied validate_password
    pwd_result     \* (valid, reason) returned by validate_password

vars == <<client, store, clock, runs, pc, formRendered, submitted, form,
          errors, user_data, result, callLog, listed,
          password, pwd_checked, pwd_result>>

appVars == <<client, store, clock, runs, pc, formRendered, submitted, form,
             errors, user_data, result, callLog, listed>>

pwdVars == <<password, pwd_checked, pwd_result>>

---------------------------------------------------------------------------
(* Bounds of the model *)

MaxRuns == 2

MaxPwdLen == 8

Sessions == {"s1", "s2"}

---------------------------------------------------------------------------
(* Character classes of the regular expressions *)

UpperCase == {"A","B","C","D","E","F","G","H","I","J","K","L","M",
              "N","O","P","Q","R","S","T","U","V","W","X","Y","Z"}

LowerCase == {"a","b","c","d","e","f","g","h","i","j","k","l","m",
              "n","o","p","q","r","s","t","u","v","w","x","y","z"}

Digits == {"0","1","2","3","4","5","6","7","8","9"}

Letters == UpperCase \cup LowerCase

EmailLocalChars == Letters \cup Digits \cup {".", "_", "%", "+", "-"}

EmailDomainChars == Letters \cup Digits \cup {".", "-"}

MinTldLen == 2

MinPhoneDigits == 9

MaxPhoneDigits == 15

MinPasswordLen == 8

AllIn(s, lo, hi, class) == \A k \in lo..hi : s[k] \in class

HasChar(s, class) == \E k \in 1..Len(s) : s[k] \in class

---------------------------------------------------------------------------
(* Validation functions *)

validate_email(email) ==
    \E at \in 2..Len(email) : \E dot \in (at + 2)..Len(email) :
        /\ AllIn(email, 1, at - 1, EmailLocalChars)
        /\ email[at] = "@"
        /\ AllIn(email, at + 1, dot - 1, EmailDomainChars)
        /\ email[dot] = "."
        /\ Len(email) - dot >= MinTldLen
        /\ AllIn(email, dot + 1, Len(email), Letters)

validate_phone(phone) ==
    \E plus \in 0..1 : \E one \in 0..1 :
        /\ plus = 1 => (Len(phone) >= 1 /\ phone[1] = "+")
        /\ one = 1 => (Len(phone) >= plus + 1 /\ phone[plus + 1] = "1")
        /\ Len(phone) >= plus + one
        /\ Len(phone) - plus - one >= MinPhoneDigits
        /\ Len(phone) - plus - one <= MaxPhoneDigits
        /\ AllIn(phone, plus + one + 1, Len(phone), Digits)

validate_password_uppercase_first(pwd) ==
    IF ~HasChar(pwd, UpperCase)
    THEN <<FALSE, "Password must contain at least one uppercase letter">>
    ELSE IF Len(pwd) < MinPasswordLen
    THEN <<FALSE, "Password must be at least 8 characters long">>
    ELSE IF ~HasChar(pwd, LowerCase)
    THEN <<FALSE, "Password must contain at least one lowercase letter">>
    ELSE IF ~HasChar(pwd, Digits)
    THEN <<FALSE, "Password must contain at least one number">>
    ELSE <<TRUE, "Password is valid">>

validate_password(pwd) ==
    IF Len(pwd) < MinPasswordLen
    THEN <<FALSE, "Password must be at least 8 characters long">>
    ELSE IF ~HasChar(pwd, UpperCase)
    THEN <<FALSE, "Password must contain at least one uppercase letter">>
    ELSE IF ~HasChar(pwd, LowerCase)
    THEN <<FALSE, "Password must contain at least one lowercase letter">>
    ELSE IF ~HasChar(pwd, Digits)
    THEN <<FALSE, "Password must contain at least one number">>
    ELSE <<TRUE, "Password is valid">>


---------------------------------------------------------------------------
(* Form input: the values a user can type into the required fields *)

GoodFirstName == <<"A","n","n">>

GoodLastName == <<"L","e","e">>

GoodUsernames == {<<"u","1">>, <<"u","2">>}

GoodEmails == {<<"a","@","b",".","c","o">>, <<"c","@","d",".","i","o">>}

GoodPhone == <<"+","1","2","3","4","5","6","7","8","9","0">>

GoodPassword == <<"A","b","c","d","e","f","g","1">>

FirstNames == {<<>>, GoodFirstName}

LastNames == {<<>>, GoodLastName}

Usernames == {<<>>} \cup GoodUsernames

Emails == {<<>>, <<"a","@","b">>} \cup GoodEmails

Phones == {<<>>, <<"1","2","3">>, GoodPhone}

Passwords == {<<>>, <<"a","b","c","d","e","f","g","1">>, GoodPassword}

EmptyForm ==
    [first_name |-> <<>>, last_name |-> <<>>, username |-> <<>>,
     email |-> <<>>, phone |-> <<>>, password |-> <<>>,
     confirm_password |-> <<>>, terms_accepted |-> FALSE]

ValidForms ==
    [first_name : {GoodFirstName}, last_name : {GoodLastName},
     username : GoodUsernames, email : GoodEmails, phone : {GoodPhone},
     password : {GoodPassword}, confirm_password : {GoodPassword},
     terms_accepted : {TRUE}]

BaseForm ==
    [first_name |-> GoodFirstName, last_name |-> GoodLastName,
     username |-> <<"u","1">>, email |-> <<"a","@","b",".","c","o">>,
     phone |-> GoodPhone, password |-> GoodPassword,
     confirm_password |-> GoodPassword, terms_accepted |-> TRUE]

(* A form with one field changed to each of its other values *)
OneFieldChanged(f) ==
    {[f EXCEPT !.first_name = v] : v \in FirstNames}
    \cup {[f EXCEPT !.last_name = v] : v \in LastNames}
    \cup {[f EXCEPT !.username = v] : v \in Usernames}
    \cup {[f EXCEPT !.email = v] : v \in Emails}
    \cup {[f EXCEPT !.phone = v] : v \in Phones}
    \cup {[f EXCEPT !.password = v] : v \in Passwords}
    \cup {[f EXCEPT !.confirm_password = v] : v \in Passwords}
    \cup {[f EXCEPT !.terms_accepted = v] : v \in BOOLEAN}

Forms == ValidForms \cup OneFieldChanged(BaseForm) \cup {EmptyForm}

RemoteFailures == {"timeout", "duplicate key value"}

---------------------------------------------------------------------------
(* Values of the per-run locals before they are assigned *)

NoData ==
    [first_name |-> <<>>, last_name |-> <<>>, username |-> <<>>,
     email |-> <<>>, phone |-> <<>>, password |-> <<>>, created_at |-> 0]

NoResult == <<FALSE, "">>

NoListing == [ok |-> FALSE, rows |-> <<>>, message |-> ""]

Warn == "(!) "

---------------------------------------------------------------------------
(* Database operations *)

Matching(column, value) == {i \in 1..Len(store) : store[i][column] = value}

LogEntry(call, outcome, matches) ==
    [call |-> call, outcome |-> outcome, matches |-> matches]

Row(data) ==
    [id |-> Len(store) + 1, first_name |-> data.first_name,
     last_name |-> data.last_name, username |-> data.username,
     email |-> data.email, phone |-> data.phone,
     password |-> data.password, created_at |-> data.created_at]

register_user_retry(data, outcome) ==
    IF outcome = "ok"
    THEN [ret |-> <<TRUE, "Registration successful!">>,
          rows |-> Append(store, Row(data)),
          calls |-> <<LogEntry("insert", "ok", 0)>>]
    ELSE [ret |-> <<FALSE, "Error: " \o outcome>>,
          rows |-> store,
          calls |-> <<LogEntry("insert", outcome, 0),
                      LogEntry("insert", outcome, 0)>>]

register_user_upsert(data, outcome) ==
    IF outcome = "ok"
    THEN [ret |-> <<TRUE, "Registration successful!">>,
          rows |-> IF \E i \in 1..Len(store) : store[i].username = data.username
                   THEN [i \in 1..Len(store) |->
                            IF store[i].username = data.username
                            THEN [Row(data) EXCEPT !.id = i]
                            ELSE store[i]]
                   ELSE Append(store, Row(data)),
          calls |-> <<LogEntry("insert", "ok", 0)>>]
    ELSE [ret |-> <<FALSE, "Error: " \o outcome>>,
          rows |-> store,
          calls |-> <<LogEntry("insert", outcome, 0)>>]

register_user(data, outcome) ==
    IF outcome = "ok"
    THEN [ret |-> <<TRUE, "Registration successful!">>,
          rows |-> Append(store, Row(data)),
          calls |-> <<LogEntry("insert", "ok", 0)>>]
    ELSE [ret |-> <<FALSE, "Error: " \o outcome>>,
          rows |-> store,
          calls |-> <<LogEntry("insert", outcome, 0)>>]

check_email_exists(email, outcome) ==
    IF outcome = "ok"
    THEN Cardinality(Matching("email", email)) > 0
    ELSE FALSE

check_username_exists_email_column(username, outcome) ==
    IF outcome = "ok"
    THEN Cardinality(Matching("email", username)) > 0
    ELSE FALSE

check_username_exists_fail_closed(username, outcome) ==
    IF outcome = "ok"
    THEN Cardinality(Matching("username", username)) > 0
    ELSE TRUE

check_username_exists(username, outcome) ==
    IF outcome = "ok"
    THEN Cardinality(Matching("username", username)) > 0
    ELSE FALSE

Projection(r) ==
    [id |-> r.id, first_name |-> r.first_name, last_name |-> r.last_name,
     username |-> r.username, email |-> r.email, created_at |-> r.created_at]

list_users_first_only(outcome) ==
    IF outcome = "ok"
    THEN [ok |-> TRUE,
          rows |-> [i \in 1..(IF Len(store) > 0 THEN 1 ELSE 0) |->
                       Projection(store[i])],
          message |-> IF Len(store) > 0
                      THEN "Total registered users: 1"
                      ELSE "No users registered yet."]
    ELSE [ok |-> FALSE, rows |-> <<>>,
          message |-> "Error fetching users: " \o outcome]

list_users(outcome) ==
    IF outcome = "ok"
    THEN [ok |-> TRUE,
          rows |-> [i \in 1..Len(store) |-> Projection(store[i])],
          message |-> IF Len(store) > 0
                      THEN "Total registered users: " \o ToString(Len(store))
                      ELSE "No users registered yet."]
    ELSE [ok |-> FALSE, rows |-> <<>>,
          message |-> "Error fetching users: " \o outcome]

---------------------------------------------------------------------------
(* The script *)

init_supabase_continue(created) ==
    IF client = "ok" \/ created THEN "ok" ELSE "none"

init_supabase(created) ==
    IF client = "ok" \/ created THEN "ok" ELSE "stop"

Truthy(s) == Len(s) > 0

Opt(cond, msg) == IF cond THEN <<msg>> ELSE <<>>

LocalErrors_terms_unchecked(f) ==
    Opt(~(/\ Truthy(f.first_name) /\ Truthy(f.last_name)
          /\ Truthy(f.username) /\ Truthy(f.email) /\ Truthy(f.phone)
          /\ Truthy(f.password) /\ Truthy(f.confirm_password)),
        Warn \o "Please fill in all required fields marked with *")
    \o Opt(~validate_email(f.email), Warn \o "Invalid email format")
    \o Opt(~validate_phone(f.phone), Warn \o "Invalid phone number format")
    \o Opt(~validate_password(f.password)[1],
           Warn \o validate_password(f.password)[2])
    \o Opt(f.password # f.confirm_password, Warn \o "Passwords do not match")

LocalErrors_confirm_unchecked(f) ==
    Opt(~(/\ Truthy(f.first_name) /\ Truthy(f.last_name)
          /\ Truthy(f.username) /\ Truthy(f.email) /\ Truthy(f.phone)
          /\ Truthy(f.password)),
        Warn \o "Please fill in all required fields marked with *")
    \o Opt(~validate_email(f.email), Warn \o "Invalid email format")
    \o Opt(~validate_phone(f.phone), Warn \o "Invalid phone number format")
    \o Opt(~validate_password(f.password)[1],
           Warn \o validate_password(f.password)[2])
    \o Opt(~f.terms_accepted,
           Warn \o "You must accept the Terms and Conditions")

LocalErrors(f) ==
    Opt(~(/\ Truthy(f.first_name) /\ Truthy(f.last_name)
          /\ Truthy(f.username) /\ Truthy(f.email) /\ Truthy(f.phone)
          /\ Truthy(f.password) /\ Truthy(f.confirm_password)),
        Warn \o "Please fill in all required fields marked with *")
    \o Opt(~validate_email(f.email), Warn \o "Invalid email format")
    \o Opt(~validate_phone(f.phone), Warn \o "Invalid phone number format")
    \o Opt(~validate_password(f.password)[1],
           Warn \o validate_password(f.password)[2])
    \o Opt(f.password # f.confirm_password, Warn \o "Passwords do not match")
    \o Opt(~f.terms_accepted,
           Warn \o "You must accept the Terms and Conditions")

UserData(f) ==
    [first_name |-> f.first_name, last_name |-> f.last_name,
     username |-> f.username, email |-> f.email, phone |-> f.phone,
     password |-> f.password, created_at |-> clock]

TypeOK ==
    /\ client \in {"unset", "ok"}
    /\ runs \in 0..MaxRuns
    /\ clock \in Nat
    /\ pc \in [Sessions -> {"idle", "halted", "check_email", "register", "listing"}]
    /\ formRendered \in [Sessions -> BOOLEAN]
    /\ submitted \in [Sessions -> BOOLEAN]
    /\ \A s \in Sessions : form[s] \in Forms
    /\ Len(password) <= MaxPwdLen

Init ==
    /\ client = "unset"
    /\ store = <<>>
    /\ clock = 1
    /\ runs = 0
    /\ pc = [s \in Sessions |-> "idle"]
    /\ formRendered = [s \in Sessions |-> FALSE]
    /\ submitted = [s \in Sessions |-> FALSE]
    /\ form = [s \in Sessions |-> EmptyForm]
    /\ errors = [s \in Sessions |-> <<>>]
    /\ user_data = [s \in Sessions |-> NoData]
    /\ result = [s \in Sessions |-> NoResult]
    /\ callLog = [s \in Sessions |-> <<>>]
    /\ listed = [s \in Sessions |-> NoListing]
    /\ password = <<>>
    /\ pwd_checked = FALSE
    /\ pwd_result = NoResult

(* A script run starts *)
BeginRun(s, isSubmit, f) ==
    /\ isSubmit => runs < MaxRuns
    /\ runs' = IF isSubmit THEN runs + 1 ELSE runs
    /\ submitted' = [submitted EXCEPT ![s] = isSubmit]
    /\ form' = [form EXCEPT ![s] = f]
    /\ listed' = [listed EXCEPT ![s] = NoListing]
    /\ UNCHANGED <<user_data, result>>

(* init_supabase raises: st.error, st.info, st.stop *)
InitFail(s) ==
    /\ pc[s] \in {"idle", "halted"}
    /\ \E created \in BOOLEAN : init_supabase(created) = "stop"
    /\ BeginRun(s, FALSE, EmptyForm)
    /\ pc' = [pc EXCEPT ![s] = "halted"]
    /\ formRendered' = [formRendered EXCEPT ![s] = FALSE]
    /\ errors' = [errors EXCEPT ![s] = <<>>]
    /\ callLog' = [callLog EXCEPT ![s] = <<>>]
    /\ UNCHANGED <<client, store, clock, pwdVars>>

(* A run without submission: the form is rendered, then the listing tab *)
View(s) ==
    /\ pc[s] \in {"idle", "halted"}
    /\ \E created \in BOOLEAN :
          /\ init_supabase(created) # "stop"
          /\ client' = IF created THEN "ok" ELSE client
    /\ BeginRun(s, FALSE, EmptyForm)
    /\ pc' = [pc EXCEPT ![s] = "listing"]
    /\ formRendered' = [formRendered EXCEPT ![s] = TRUE]
    /\ errors' = [errors EXCEPT ![s] = <<>>]
    /\ callLog' = [callLog EXCEPT ![s] = <<>>]
    /\ UNCHANGED <<store, clock, pwdVars>>

(* The Register button: local validation, then the username select *)
Submit(s, f) ==
    /\ pc[s] = "idle"
    /\ formRendered[s]
    /\ \E created \in BOOLEAN :
          /\ init_supabase(created) # "stop"
          /\ client' = IF created THEN "ok" ELSE client
    /\ BeginRun(s, TRUE, f)
    /\ \E outcome \in {"ok", "fail"} :
          /\ errors' = [errors EXCEPT ![s] =
                 LocalErrors(f)
                 \o Opt(check_username_exists(f.username, outcome),
                        Warn \o "Username already exists")]
          /\ callLog' = [callLog EXCEPT ![s] =
                 <<LogEntry("select_username", outcome,
                            Cardinality(Matching("username", f.username)))>>]
    /\ pc' = [pc EXCEPT ![s] = "check_email"]
    /\ UNCHANGED <<store, clock, formRendered, pwdVars>>

(* The email select, then "if errors" *)
CheckEmail(s) ==
    /\ pc[s] = "check_email"
    /\ \E outcome \in {"ok", "fail"} :
          LET errs == errors[s]
                      \o Opt(check_email_exists(form[s].email, outcome),
                             Warn \o "Email already registered")
          IN /\ errors' = [errors EXCEPT ![s] = errs]
             /\ callLog' = [callLog EXCEPT ![s] =
                    Append(@, LogEntry("select_email", outcome,
                               Cardinality(Matching("email", form[s].email))))]
             /\ IF errs # <<>>
                THEN /\ pc' = [pc EXCEPT ![s] = "listing"]
                     /\ UNCHANGED <<user_data, clock>>
                ELSE /\ pc' = [pc EXCEPT ![s] = "register"]
                     /\ user_data' = [user_data EXCEPT ![s] = UserData(form[s])]
                     /\ clock' = clock + 1
    /\ UNCHANGED <<client, store, runs, formRendered, submitted, form,
                   result, listed, pwdVars>>

(* register_user(user_data) and the display of its result *)
Register_recheck(s) ==
    /\ pc[s] = "register"
    /\ IF Cardinality(Matching("username", user_data[s].username)) > 0
       THEN /\ errors' = [errors EXCEPT ![s] =
                   <<Warn \o "Username already exists">>]
            /\ UNCHANGED <<store, result, callLog>>
       ELSE /\ \E outcome \in {"ok"} \cup RemoteFailures :
                 LET r == register_user(user_data[s], outcome)
                 IN /\ store' = r.rows
                    /\ result' = [result EXCEPT ![s] = r.ret]
                    /\ callLog' = [callLog EXCEPT ![s] = @ \o r.calls]
            /\ UNCHANGED errors
    /\ pc' = [pc EXCEPT ![s] = "listing"]
    /\ UNCHANGED <<client, clock, runs, formRendered, submitted, form,
                   user_data, listed, pwdVars>>

Register(s) ==
    /\ pc[s] = "register"
    /\ \E outcome \in {"ok"} \cup RemoteFailures :
          LET r == register_user(user_data[s], outcome)
          IN /\ store' = r.rows
             /\ result' = [result EXCEPT ![s] = r.ret]
             /\ callLog' = [callLog EXCEPT ![s] = @ \o r.calls]
    /\ pc' = [pc EXCEPT ![s] = "listing"]
    /\ UNCHANGED <<client, clock, runs, formRendered, submitted, form,
                   errors, user_data, listed, pwdVars>>

(* The "View Users" tab: one select, rendered as a table or an error; the
   run ends here and its locals are gone, the page stays *)
Listing(s) ==
    /\ pc[s] = "listing"
    /\ \E outcome \in {"ok"} \cup RemoteFailures :
          listed' = [listed EXCEPT ![s] = list_users(outcome)]
    /\ pc' = [pc EXCEPT ![s] = "idle"]
    /\ submitted' = [submitted EXCEPT ![s] = FALSE]
    /\ form' = [form EXCEPT ![s] = EmptyForm]
    /\ errors' = [errors EXCEPT ![s] = <<>>]
    /\ user_data' = [user_data EXCEPT ![s] = NoData]
    /\ result' = [result EXCEPT ![s] = NoResult]
    /\ callLog' = [callLog EXCEPT ![s] = <<>>]
    /\ UNCHANGED <<client, store, clock, runs, formRendered, pwdVars>>

Next ==
    \/ \E s \in Sessions : InitFail(s)
    \/ \E s \in Sessions : View(s)
    \/ \E s \in Sessions : \E f \in Forms : Submit(s, f)
    \/ \E s \in Sessions : CheckEmail(s)
    \/ \E s \in Sessions : Register(s)
    \/ \E s \in Sessions : Listing(s)

Spec == Init /\ [][Next]_vars

---------------------------------------------------------------------------
(* Harness for the pure function validate_password *)

PwdAlphabet == {"A", "a", "1", "_"}

TypeChar(c) ==
    /\ Len(password) < MaxPwdLen
    /\ password' = Append(password, c)
    /\ pwd_checked' = FALSE
    /\ pwd_result' = NoResult
    /\ UNCHANGED appVars

Validate ==
    /\ ~pwd_checked
    /\ pwd_checked' = TRUE
    /\ pwd_result' = validate_password(password)
    /\ UNCHANGED <<password, appVars>>

NextPwd ==
    \/ \E c \in PwdAlphabet : TypeChar(c)
    \/ Validate

SpecPwd == Init /\ [][NextPwd]_vars

---------------------------------------------------------------------------
(* Vocabulary of the properties *)

InSeq(x, seq) == \E i \in 1..Len(seq) : seq[i] = x

Entries(s, call) == {i \in 1..Len(callLog[s]) : callLog[s][i].call = call}

Called(s, call) == Entries(s, call) # {}

CallOk(s, call) == \E i \in Entries(s, call) : callLog[s][i].outcome = "ok"

CallFailed(s, call) == \E i \in Entries(s, call) : callLog[s][i].outcome # "ok"

(* the table held a matching row when the select was issued *)
WasStored(s, call) == \E i \in Entries(s, call) : callLog[s][i].matches > 0

(* the handling of a submission is over and its outcome is on the page *)
Processed(s) == submitted[s] /\ pc[s] = "listing"

StrongPassword(p) ==
    /\ Len(p) >= 8
    /\ HasChar(p, UpperCase)
    /\ HasChar(p, LowerCase)
    /\ HasChar(p, Digits)

RequiredFilled(f) ==
    /\ f.first_name # <<>>
    /\ f.last_name # <<>>
    /\ f.username # <<>>
    /\ f.email # <<>>
    /\ f.phone # <<>>
    /\ f.password # <<>>

HasLocalError(f) ==
    \/ ~RequiredFilled(f)
    \/ f.confirm_password = <<>>
    \/ ~validate_email(f.email)
    \/ ~validate_phone(f.phone)
    \/ ~StrongPassword(f.password)
    \/ f.password # f.confirm_password
    \/ ~f.terms_accepted

UsernameConflict == Warn \o "Username already exists"

EmailConflict == Warn \o "Email already registered"

Success == <<TRUE, "Registration successful!">>

SameFields(r, f) ==
    /\ r.first_name = f.first_name
    /\ r.last_name = f.last_name
    /\ r.username = f.username
    /\ r.email = f.email
    /\ r.phone = f.phone
    /\ r.password = f.password

RowsKept == \A i \in 1..Len(store) : i <= Len(store') /\ store'[i] = store[i]

---------------------------------------------------------------------------
(* C1, as stated: every processed submission whose username was already in
   the users table when it was checked ends with the error "Username
   already exists" and without an insert. *)
C1_AsStated ==
    \A s \in Sessions :
        (Processed(s) /\ WasStored(s, "select_username"))
        => (InSeq(UsernameConflict, errors[s]) /\ ~Called(s, "insert"))

(* C1, amended: a processed submission whose username was already in the
   users table, and whose username select was answered by the store, ends
   with the error "Username already exists" and without an insert, whatever
   the other field values are. *)
C1_ConflictWhenSelectAnswers ==
    \A s \in Sessions :
        (Processed(s) /\ WasStored(s, "select_username")
            /\ CallOk(s, "select_username"))
        => (InSeq(UsernameConflict, errors[s]) /\ ~Called(s, "insert"))

C1_Witness ==
    \E s \in Sessions :
        /\ Processed(s)
        /\ WasStored(s, "select_username")
        /\ CallOk(s, "select_username")
        /\ ~HasLocalError(form[s])
        /\ errors[s] = <<UsernameConflict>>

(* C2, as stated: a processed submission with a local validation error has
   issued no remote call through check_username_exists, check_email_exists
   or register_user. *)
C2_AsStated ==
    \A s \in Sessions :
        (Processed(s) /\ HasLocalError(form[s]))
        => /\ ~Called(s, "select_username")
           /\ ~Called(s, "select_email")
           /\ ~Called(s, "insert")

(* C2, amended: a processed submission with a local validation error has
   its errors reported and has made no insert (register_user is not
   called); its only remote calls are the username select followed by the
   email select, which are issued for every submission. *)
C2_LocalErrorNoInsert ==
    \A s \in Sessions :
        (Processed(s) /\ HasLocalError(form[s]))
        => /\ errors[s] # <<>>
           /\ ~Called(s, "insert")
           /\ result[s] = NoResult
           /\ Len(callLog[s]) = 2
           /\ callLog[s][1].call = "select_username"
           /\ callLog[s][2].call = "select_email"

C2_Witness ==
    \E s \in Sessions :
        /\ Processed(s)
        /\ HasLocalError(form[s])
        /\ RequiredFilled(form[s])
        /\ Len(errors[s]) = 1
        /\ Len(store) > 0

(* C3: a submission with valid fields, matching passwords, accepted terms,
   a username and an email no stored row has, and a store that answers
   every call, returns success; its insert appends exactly one row with the
   submitted values; rows stay in the table and every listing the store
   answers contains the username and email of every row. *)
C3_FreshAndAnswered(s) ==
    /\ Processed(s)
    /\ ~HasLocalError(form[s])
    /\ CallOk(s, "select_username") /\ ~WasStored(s, "select_username")
    /\ CallOk(s, "select_email") /\ ~WasStored(s, "select_email")
    /\ ~CallFailed(s, "insert")

C3_ValidRegistrationListed ==
    /\ [](\A s \in Sessions :
            C3_FreshAndAnswered(s)
            => /\ result[s] = Success
               /\ Cardinality(Entries(s, "insert")) = 1
               /\ \E i \in 1..Len(store) :
                     /\ SameFields(store[i], form[s])
                     /\ store[i].created_at = user_data[s].created_at)
    /\ [][\A s \in Sessions :
            (pc[s] = "register" /\ pc'[s] = "listing" /\ result'[s] = Success)
            => /\ Len(store') = Len(store) + 1
               /\ SameFields(store'[Len(store')], form[s])]_vars
    /\ [][RowsKept]_vars
    /\ [][\A s \in Sessions :
            (pc[s] = "listing" /\ pc'[s] = "idle" /\ listed'[s].ok)
            => \A i \in 1..Len(store) :
                  \E j \in 1..Len(listed'[s].rows) :
                     /\ listed'[s].rows[j].username = store[i].username
                     /\ listed'[s].rows[j].email = store[i].email]_vars

C3_Witness ==
    \E s \in Sessions : \E t \in Sessions \ {s} :
        /\ C3_FreshAndAnswered(s)
        /\ result[s] = Success
        /\ Len(store) = 2
        /\ pc[t] = "idle"
        /\ listed[t].ok
        /\ Len(listed[t].rows) = 2
        /\ listed[t].rows[2].username = form[s].username
        /\ listed[t].rows[2].email = form[s].email

(* C4: an insert is attempted only for a submission whose first name, last
   name, username, email, phone and password are non-empty and whose terms
   checkbox is accepted; every stored row has these fields non-empty. *)
C4_InsertOnlyWhenRequiredFilled ==
    /\ \A s \in Sessions :
          (pc[s] = "register" \/ Called(s, "insert"))
          => /\ RequiredFilled(form[s])
             /\ form[s].terms_accepted
             /\ SameFields(user_data[s], form[s])
    /\ \A i \in 1..Len(store) : RequiredFilled(store[i])

C4_Witness ==
    \E s \in Sessions :
        /\ CallOk(s, "insert")
        /\ Len(store) > 0
        /\ form[s].terms_accepted

(* C5: nothing stands between the existence checks and the insert: a run
   that has passed its checks makes its insert attempt in its next step,
   whatever the table holds by then -- also when another submission with
   the same username passed its checks on the same table state. *)
C5_NoCheckBeforeInsert ==
    [][\A s \in Sessions :
          (pc[s] = "register" /\ pc'[s] # "register")
          => /\ Len(callLog'[s]) = Len(callLog[s]) + 1
             /\ callLog'[s][Len(callLog'[s])].call = "insert"]_vars

(* both submissions were told by the store that the username is free, both
   called register_user, and the table holds the username twice *)
C5_Witness ==
    \E s \in Sessions : \E t \in Sessions \ {s} :
        /\ Processed(s) /\ Processed(t)
        /\ form[s].username = form[t].username
        /\ CallOk(s, "select_username") /\ ~WasStored(s, "select_username")
        /\ CallOk(t, "select_username") /\ ~WasStored(t, "select_username")
        /\ CallOk(s, "select_email") /\ CallOk(t, "select_email")
        /\ CallOk(s, "insert") /\ CallOk(t, "insert")
        /\ Cardinality(Matching("username", form[s].username)) = 2

(* C6: a failed select makes the existence check answer "does not exist";
   a locally valid submission whose two selects both failed goes on to
   register_user, even when the username or email is already stored. *)
C6_FailOpen ==
    \A s \in Sessions :
        /\ (submitted[s] /\ CallFailed(s, "select_username"))
              => ~InSeq(UsernameConflict, errors[s])
        /\ (submitted[s] /\ CallFailed(s, "select_email"))
              => ~InSeq(EmailConflict, errors[s])
        /\ (submitted[s] /\ ~HasLocalError(form[s])
              /\ CallFailed(s, "select_username")
              /\ CallFailed(s, "select_email"))
              => /\ errors[s] = <<>>
                 /\ pc[s] \in {"register", "listing"}
                 /\ pc[s] = "listing" => Called(s, "insert")

C6_Witness ==
    \E s \in Sessions :
        /\ Processed(s)
        /\ CallFailed(s, "select_username") /\ WasStored(s, "select_username")
        /\ CallFailed(s, "select_email") /\ WasStored(s, "select_email")
        /\ CallOk(s, "insert")

(* C7: a call of register_user makes one insert attempt; when the insert
   fails it returns (False, "Error: " + the failure), the table is unchanged
   and the run goes on to the listing; when it succeeds it returns (True,
   "Registration successful!") and the table has one more row; a submission
   makes at most one insert attempt. *)
C7_OneInsertAttempt ==
    /\ [](\A s \in Sessions : Cardinality(Entries(s, "insert")) <= 1)
    /\ [][\A s \in Sessions :
            (pc[s] = "register" /\ pc'[s] # "register")
            => LET log == callLog'[s]
                   last == log[Len(log)]
               IN /\ pc'[s] = "listing"
                  /\ Len(log) = Len(callLog[s]) + 1
                  /\ last.call = "insert"
                  /\ \/ /\ last.outcome = "ok"
                        /\ result'[s] = Success
                        /\ Len(store') = Len(store) + 1
                        /\ RowsKept
                     \/ /\ last.outcome \in RemoteFailures
                        /\ result'[s] = <<FALSE, "Error: " \o last.outcome>>
                        /\ store' = store]_vars

C7_Witness ==
    \E s \in Sessions :
        /\ Processed(s)
        /\ CallFailed(s, "insert")
        /\ result[s] = <<FALSE, "Error: timeout">>
        /\ pc[s] = "listing"

(* C8: validate_password answers with the reason of the first unmet rule
   in the order length >= 8, uppercase, lowercase, digit, and with (True,
   "Password is valid") exactly when the four rules hold; a password
   shorter than 8 characters always gets the length reason. *)
C8_FirstUnmetRule ==
    pwd_checked =>
        LET long == Len(password) >= 8
            upper == \E k \in 1..Len(password) : password[k] \in UpperCase
            lower == \E k \in 1..Len(password) : password[k] \in LowerCase
            digit == \E k \in 1..Len(password) : password[k] \in Digits
        IN /\ ~long => pwd_result =
                 <<FALSE, "Password must be at least 8 characters long">>
           /\ (long /\ ~upper) => pwd_result =
                 <<FALSE, "Password must contain at least one uppercase letter">>
           /\ (long /\ upper /\ ~lower) => pwd_result =
                 <<FALSE, "Password must contain at least one lowercase letter">>
           /\ (long /\ upper /\ lower /\ ~digit) => pwd_result =
                 <<FALSE, "Password must contain at least one number">>
           /\ pwd_result[1] <=> (long /\ upper /\ lower /\ digit)
           /\ pwd_result[1] => pwd_result[2] = "Password is valid"

C8_Witness ==
    /\ pwd_checked
    /\ Len(password) = 7
    /\ \A k \in 1..Len(password) : password[k] \in LowerCase
    /\ pwd_result = <<FALSE, "Password must be at least 8 characters long">>

(* C9: while no client could be created nothing is served: no form is on
   any page, no submission is handled, no select or insert has been issued
   and the table is untouched; a run halted by init_supabase has rendered
   no form, handled no submission and issued no remote call. *)
C9_HaltOnInitFailure ==
    /\ client # "ok"
          => /\ store = <<>>
             /\ \A s \in Sessions :
                   /\ pc[s] \in {"idle", "halted"}
                   /\ ~formRendered[s]
                   /\ ~submitted[s]
                   /\ callLog[s] = <<>>
                   /\ listed[s] = NoListing
    /\ \A s \in Sessions :
          pc[s] = "halted"
          => /\ ~formRendered[s]
             /\ ~submitted[s]
             /\ callLog[s] = <<>>
             /\ listed[s] = NoListing

C9_Witness ==
    \E s \in Sessions : \E t \in Sessions \ {s} :
        /\ pc[s] = "halted"
        /\ client = "ok"
        /\ formRendered[t]

(* C10: the users table is append-only: no step removes or changes a row
   (created_at included); a step changes the table only by appending one
   row, and only as the successful insert of register_user; a rejected
   submission and a listing leave the table as it was. *)
C10_AppendOnly ==
    [][/\ RowsKept
       /\ Len(store') <= Len(store) + 1
       /\ store' # store
             => \E s \in Sessions :
                   /\ pc[s] = "register"
                   /\ result'[s] = Success
                   /\ store' = Append(store, store'[Len(store')])
       /\ \A s \in Sessions :
             (pc'[s] # pc[s] /\ (pc[s] = "listing" \/ errors'[s] # <<>>))
             => store' = store]_vars

C10_Witness ==
    \E s \in Sessions : \E t \in Sessions \ {s} :
        /\ Len(store) = 1
        /\ Processed(s) /\ errors[s] # <<>>
        /\ pc[t] = "idle" /\ listed[t].ok
        /\ Len(listed[t].rows) = 1
        /\ listed[t].rows[1].created_at = store[1].created_at

====
